---- MODULE Spec2Model ----
(***************************************************************************)
(* Model of the path-search comparison engine of app.py: the five solvers  *)
(* (A*, Dijkstra, Greedy BFS, BFS, DFS), reconstruct_path,                 *)
(* calculate_path_distance and the selection loop of compare_routes.       *)
(* One action is one iteration of a solver's while loop; the iteration     *)
(* that returns also runs the orchestrator's bookkeeping for that solver   *)
(* and the prologue of the next one, as the code does without a pause.     *)
(***************************************************************************)
EXTENDS Integers, Sequences, FiniteSets, TLC

\* ------------------------------------------------------------- bounds
\* Largest number of directed edges of an input graph.
MaxEdges == 3
\* Largest number of edges of an input graph without self-loops.
MaxRouteEdges == 4
\* Largest number of edges of an input graph of unit weights.
MaxUnitEdges == 5
\* Largest number of edges of a graph whose stored length exceeds (by one
\* metre) the great-circle distance of their endpoints.
MaxPadded == 2

\* float('inf'), the initial min_distance and the default of dict.get.
Inf == -1

\* ------------------------------------------------------------- inputs
\* Node coordinates: the nodes lie on one meridian, Pos[n] is the latitude
\* of node n in units of one metre of arc, so that the great-circle distance
\* of two nodes is the difference of their positions.
Pos == <<0, 1, 3, 4, 4>>
Nodes == DOMAIN Pos
\* The nodes that carry edges in the smaller input families, the fifth node
\* being an isolated node of the graph: West has four places apart, East
\* has two nodes at one place (an edge between them has length 0).
West == Nodes \ {Len(Pos)}
East == Nodes \ {1}

\* The wall-clock durations a solver call may take, in microseconds.
DurationsUs == {8, 12, 16}
\* One duration, where the timing is not what is looked at.
OneDuration == {12}

\* The solvers dict of compare_routes, in its insertion order.
SolverNames == <<"A* (A-Star)", "Dijkstra", "Greedy BFS", "BFS", "DFS">>
Trusted == {"A* (A-Star)", "Dijkstra", "BFS"}
NoAlgo == "None"

VARIABLES
    adj,            \* graph: node -> sequence of successors, in adjacency order
    length,         \* graph: edge -> its 'length' attribute, where it has one
    start_node, end_node,
    clock,          \* the durations a solver call may be measured to take
    pc,             \* "run" while a solver is running, "done" after line 154
    algo,           \* index into SolverNames of the running solver
    pq,             \* heap of A*, Dijkstra, Greedy BFS: set of <<score, node>>
    queue,          \* deque of BFS, stack of DFS
    came_from,      \* predecessor dict of the running solver
    scores,         \* g_scores of A*, distances of Dijkstra
    visited,        \* visited set of BFS, DFS, Greedy BFS
    visited_nodes,  \* visited order of the running solver
    ret,            \* solver name -> the tuple its call returned (line 147)
                    \* and end_time - start_time of the call (microseconds)
    results, best_path, min_distance, animation_visited_nodes,
    fastest_algo_name

vars == <<adj, length, start_node, end_node, clock, pc, algo, pq, queue,
          came_from, scores, visited, visited_nodes, ret, results, best_path,
          min_distance, animation_visited_nodes, fastest_algo_name>>

graphVars == <<adj, length, start_node, end_node, clock>>

\* ------------------------------------------------------------ helpers
Abs(x) == IF x < 0 THEN 0 - x ELSE x

\* ox.distance.great_circle of the coordinates of u and v.
great_circle(u, v) == Abs(Pos[u] - Pos[v])

\* A heuristic that overestimates the remaining distance.
heuristic_overestimate(u, v) == 3 * great_circle(u, v)

heuristic(u, v) == great_circle(u, v)

\* x < y where y may be float('inf').
LessThan(x, y) == y = Inf \/ (x # Inf /\ x < y)

\* dict.get(key, float('inf'))
Get(d, k) == IF k \in DOMAIN d THEN d[k] ELSE Inf

\* d[k] = v
Put(d, k, v) == [x \in DOMAIN d \cup {k} |-> IF x = k THEN v ELSE d[x]]

EmptyDict == [x \in {} |-> 0]

\* graph.neighbors(u)
Neighbors(u) == adj[u]

\* graph.edges[u, v, 0].get('length', 1)
EdgeLength(u, v) == IF <<u, v>> \in DOMAIN length THEN length[<<u, v>>] ELSE 1

Reverse(s) == [i \in 1..Len(s) |-> s[Len(s) + 1 - i]]

SeqToSet(s) == {s[i] : i \in 1..Len(s)}

RECURSIVE WalkBack(_, _, _)
WalkBack(cf, current, path) ==
    IF current \in DOMAIN cf
    THEN WalkBack(cf, cf[current], Append(path, cf[current]))
    ELSE path

\* The walk back without its seed, the goal node.
reconstruct_path_unseeded(cf, current) == Reverse(WalkBack(cf, current, <<>>))

\* The walk back without the final reversal.
reconstruct_path_unreversed(cf, current) == WalkBack(cf, current, <<current>>)

reconstruct_path(cf, current) == Reverse(WalkBack(cf, current, <<current>>))

RECURSIVE SumFrom(_, _)
SumFrom(path, i) ==
    IF i >= Len(path) THEN 0
    ELSE great_circle(path[i], path[i + 1]) + SumFrom(path, i + 1)

calculate_path_distance(path) == SumFrom(path, 1)

\* Tuple order of (score, node) heap entries.
EntryLE(a, b) == a[1] < b[1] \/ (a[1] = b[1] /\ a[2] <= b[2])

\* A pop of the greatest entry of the heap.
HeapMax(h) == CHOOSE e \in h : \A f \in h : EntryLE(f, e)

\* heapq.heappop: the least entry of the heap.
HeapMin(h) == CHOOSE e \in h : \A f \in h : EntryLE(e, f)

\* round(distance / 1000, 2): metres to hundredths of a kilometre.
RoundKm(d) == (d + 5) \div 10

\* round((end_time - start_time) * 1000, 2): microseconds to hundredths of
\* a millisecond.
RoundMs(t) == (t + 5) \div 10


\* min(results, key=lambda x: x['time'])['algo'] if results else None:
\* the first entry of least time.
Fastest(rs) ==
    IF rs = <<>> THEN NoAlgo
    ELSE LET i == CHOOSE k \in 1..Len(rs) :
                    /\ \A j \in 1..Len(rs) : rs[k].time <= rs[j].time
                    /\ \A j \in 1..(k - 1) : rs[j].time > rs[k].time
         IN rs[i].algo

\* The comparison of line 151 without the restriction to the three solvers.
ImprovesAnySolver(name, distance, best) ==
    LessThan(distance, best) /\ distance > 0

\* The condition of line 151.
Improves(name, distance, best) ==
    name \in Trusted /\ LessThan(distance, best) /\ distance > 0

\* ----------------------------------------------------- solver prologues
\* The local state of a solver: [pq, queue, came_from, scores, visited].
AStarStart ==
    [pq |-> {<<heuristic(start_node, end_node), start_node>>}, queue |-> <<>>,
     came_from |-> EmptyDict, scores |-> Put(EmptyDict, start_node, 0),
     visited |-> {}]

DijkstraStart ==
    [pq |-> {<<0, start_node>>}, queue |-> <<>>,
     came_from |-> EmptyDict, scores |-> Put(EmptyDict, start_node, 0),
     visited |-> {}]

GreedyStart ==
    [pq |-> {<<heuristic(start_node, end_node), start_node>>}, queue |-> <<>>,
     came_from |-> EmptyDict, scores |-> EmptyDict, visited |-> {start_node}]

BfsStart ==
    [pq |-> {}, queue |-> <<start_node>>,
     came_from |-> EmptyDict, scores |-> EmptyDict, visited |-> {start_node}]

DfsStart ==
    [pq |-> {}, queue |-> <<start_node>>,
     came_from |-> EmptyDict, scores |-> EmptyDict, visited |-> {}]

Idle ==
    [pq |-> {}, queue |-> <<>>, came_from |-> EmptyDict, scores |-> EmptyDict,
     visited |-> {}]

Prologue(i) ==
    CASE i = 1 -> AStarStart
      [] i = 2 -> DijkstraStart
      [] i = 3 -> GreedyStart
      [] i = 4 -> BfsStart
      [] i = 5 -> DfsStart
      [] OTHER -> Idle

Locals == [pq |-> pq, queue |-> queue, came_from |-> came_from,
           scores |-> scores, visited |-> visited]

SetLocals(st) ==
    /\ pq' = st.pq
    /\ queue' = st.queue
    /\ came_from' = st.came_from
    /\ scores' = st.scores
    /\ visited' = st.visited

\* ------------------------------------------------- one neighbour's step
\* Lines 52-55.
AStarRelax(st, current, neighbor) ==
    LET tentative_g_score == st.scores[current] + EdgeLength(current, neighbor)
    IN IF LessThan(tentative_g_score, Get(st.scores, neighbor))
       THEN [st EXCEPT
               !.came_from = Put(st.came_from, neighbor, current),
               !.scores = Put(st.scores, neighbor, tentative_g_score),
               !.pq = st.pq \cup {<<tentative_g_score
                                     + heuristic(neighbor, end_node), neighbor>>}]
       ELSE st

\* Lines 68-70; dist is the popped entry's distance.
DijkstraRelax(st, dist, current, neighbor) ==
    LET new_dist == dist + EdgeLength(current, neighbor)
    IN IF LessThan(new_dist, Get(st.scores, neighbor))
       THEN [st EXCEPT
               !.came_from = Put(st.came_from, neighbor, current),
               !.scores = Put(st.scores, neighbor, new_dist),
               !.pq = st.pq \cup {<<new_dist, neighbor>>}]
       ELSE st

\* Line 83 without visited.add(neighbor).
BfsRelaxUnmarked(st, current, neighbor) ==
    IF neighbor \notin st.visited
    THEN [st EXCEPT
            !.came_from = Put(st.came_from, neighbor, current),
            !.queue = Append(st.queue, neighbor)]
    ELSE st

\* Lines 82-83.
BfsRelax(st, current, neighbor) ==
    IF neighbor \notin st.visited
    THEN [st EXCEPT
            !.visited = st.visited \cup {neighbor},
            !.came_from = Put(st.came_from, neighbor, current),
            !.queue = Append(st.queue, neighbor)]
    ELSE st

\* Line 98 without the test of line 97.
DfsRelaxUnchecked(st, current, neighbor) ==
    [st EXCEPT
        !.came_from = Put(st.came_from, neighbor, current),
        !.queue = Append(st.queue, neighbor)]

\* Lines 97-98.
DfsRelax(st, current, neighbor) ==
    IF neighbor \notin st.visited
    THEN [st EXCEPT
            !.came_from = Put(st.came_from, neighbor, current),
            !.queue = Append(st.queue, neighbor)]
    ELSE st

\* Lines 112-114.
GreedyRelax(st, current, neighbor) ==
    IF neighbor \notin st.visited
    THEN [st EXCEPT
            !.visited = st.visited \cup {neighbor},
            !.came_from = Put(st.came_from, neighbor, current),
            !.pq = st.pq \cup {<<heuristic(neighbor, end_node), neighbor>>}]
    ELSE st

\* ------------------------------------------------ the neighbour loops
RECURSIVE AStarLoop(_, _, _, _)
AStarLoop(st, current, nbrs, i) ==
    IF i > Len(nbrs) THEN st
    ELSE AStarLoop(AStarRelax(st, current, nbrs[i]), current, nbrs, i + 1)

RECURSIVE DijkstraLoop(_, _, _, _, _)
DijkstraLoop(st, dist, current, nbrs, i) ==
    IF i > Len(nbrs) THEN st
    ELSE DijkstraLoop(DijkstraRelax(st, dist, current, nbrs[i]), dist, current,
                      nbrs, i + 1)

RECURSIVE BfsLoop(_, _, _, _)
BfsLoop(st, current, nbrs, i) ==
    IF i > Len(nbrs) THEN st
    ELSE BfsLoop(BfsRelax(st, current, nbrs[i]), current, nbrs, i + 1)

RECURSIVE DfsLoop(_, _, _, _)
DfsLoop(st, current, nbrs, i) ==
    IF i > Len(nbrs) THEN st
    ELSE DfsLoop(DfsRelax(st, current, nbrs[i]), current, nbrs, i + 1)

RECURSIVE GreedyLoop(_, _, _, _)
GreedyLoop(st, current, nbrs, i) ==
    IF i > Len(nbrs) THEN st
    ELSE GreedyLoop(GreedyRelax(st, current, nbrs[i]), current, nbrs, i + 1)

\* --------------------------------------------------- the orchestrator
\* A solver returns (path, distance, visited_nodes): lines 147-152 for it,
\* then the next solver's prologue, or line 154 after the last one.
Return(path, distance, vis) ==
  \E elapsed \in clock :
    LET name == SolverNames[algo]
        entry == [algo |-> name, distance |-> RoundKm(distance),
                  time |-> RoundMs(elapsed), visited |-> Len(vis)]
        rs == IF path # <<>> THEN Append(results, entry) ELSE results
        better == path # <<>> /\ Improves(name, distance, min_distance)
    IN /\ ret' = Put(ret, name, [path |-> path, distance |-> distance,
                                 visited_nodes |-> vis, elapsed |-> elapsed])
       /\ results' = rs
       /\ min_distance' = IF better THEN distance ELSE min_distance
       /\ best_path' = IF better THEN path ELSE best_path
       /\ animation_visited_nodes' =
              IF better THEN vis ELSE animation_visited_nodes
       /\ visited_nodes' = <<>>
       /\ IF algo < Len(SolverNames)
          THEN /\ algo' = algo + 1
               /\ SetLocals(Prologue(algo + 1))
               /\ pc' = "run"
               /\ UNCHANGED fastest_algo_name
          ELSE /\ algo' = algo
               /\ SetLocals(Idle)
               /\ pc' = "done"
               /\ fastest_algo_name' = Fastest(rs)
       /\ UNCHANGED graphVars

\* The goal was popped: lines 49-50 (and 65-66, 79-80, 94-95, 109-110).
ReturnFound(current, vis) ==
    LET path == reconstruct_path(came_from, current)
    IN Return(path, calculate_path_distance(path), vis)

\* The frontier ran empty: lines 56, 71, 84, 99, 115.
\* A failure return that drops the visited order.
ReturnNothing == Return(<<>>, 0, <<>>)

ReturnNotFound == Return(<<>>, 0, visited_nodes)

Running(i) == pc = "run" /\ algo = i

OrchestratorUnchanged ==
    UNCHANGED <<graphVars, pc, algo, ret, results, best_path, min_distance,
                animation_visited_nodes, fastest_algo_name>>

\* ------------------------------------------------------------- A*
AStarExhausted == Running(1) /\ pq = {} /\ ReturnNotFound

AStarSkip ==
    /\ Running(1) /\ pq # {}
    /\ LET e == HeapMin(pq)
       IN /\ e[2] \in SeqToSet(visited_nodes)
          /\ pq' = pq \ {e}
          /\ UNCHANGED <<queue, came_from, scores, visited, visited_nodes>>
    /\ OrchestratorUnchanged

AStarGoal ==
    /\ Running(1) /\ pq # {}
    /\ LET current == HeapMin(pq)[2]
       IN /\ current \notin SeqToSet(visited_nodes)
          /\ current = end_node
          /\ ReturnFound(current, Append(visited_nodes, current))

AStarExpand ==
    /\ Running(1) /\ pq # {}
    /\ LET e == HeapMin(pq)
           current == e[2]
       IN /\ current \notin SeqToSet(visited_nodes)
          /\ current # end_node
          /\ visited_nodes' = Append(visited_nodes, current)
          /\ SetLocals(AStarLoop([Locals EXCEPT !.pq = pq \ {e}], current,
                                 Neighbors(current), 1))
    /\ OrchestratorUnchanged

\* ------------------------------------------------------------- Dijkstra
DijkstraExhausted == Running(2) /\ pq = {} /\ ReturnNotFound

DijkstraSkip ==
    /\ Running(2) /\ pq # {}
    /\ LET e == HeapMin(pq)
       IN /\ LessThan(Get(scores, e[2]), e[1])
          /\ pq' = pq \ {e}
          /\ UNCHANGED <<queue, came_from, scores, visited, visited_nodes>>
    /\ OrchestratorUnchanged

DijkstraGoal ==
    /\ Running(2) /\ pq # {}
    /\ LET e == HeapMin(pq)
       IN /\ ~LessThan(Get(scores, e[2]), e[1])
          /\ e[2] = end_node
          /\ ReturnFound(e[2], Append(visited_nodes, e[2]))

DijkstraExpand ==
    /\ Running(2) /\ pq # {}
    /\ LET e == HeapMin(pq)
           current == e[2]
       IN /\ ~LessThan(Get(scores, current), e[1])
          /\ current # end_node
          /\ visited_nodes' = Append(visited_nodes, current)
          /\ SetLocals(DijkstraLoop([Locals EXCEPT !.pq = pq \ {e}], e[1],
                                    current, Neighbors(current), 1))
    /\ OrchestratorUnchanged

\* ------------------------------------------------------------- Greedy BFS
GreedyExhausted == Running(3) /\ pq = {} /\ ReturnNotFound

GreedyGoal ==
    /\ Running(3) /\ pq # {}
    /\ LET current == HeapMin(pq)[2]
       IN /\ current \notin SeqToSet(visited_nodes)
          /\ current = end_node
          /\ ReturnFound(current, Append(visited_nodes, current))

\* A popped node that is not the goal: line 106 skips it when it was visited
\* before, lines 107-114 expand it otherwise.
GreedyPop ==
    /\ Running(3) /\ pq # {}
    /\ LET e == HeapMin(pq)
           current == e[2]
       IN /\ current \in SeqToSet(visited_nodes) \/ current # end_node
          /\ IF current \in SeqToSet(visited_nodes)
             THEN /\ pq' = pq \ {e}
                  /\ UNCHANGED <<queue, came_from, scores, visited,
                                 visited_nodes>>
             ELSE /\ visited_nodes' = Append(visited_nodes, current)
                  /\ SetLocals(GreedyLoop([Locals EXCEPT !.pq = pq \ {e}],
                                          current, Neighbors(current), 1))
    /\ OrchestratorUnchanged

\* ------------------------------------------------------------- BFS
BfsExhausted == Running(4) /\ queue = <<>> /\ ReturnNotFound

BfsGoal ==
    /\ Running(4) /\ queue # <<>>
    /\ Head(queue) = end_node
    /\ ReturnFound(Head(queue), Append(visited_nodes, Head(queue)))

BfsExpand ==
    /\ Running(4) /\ queue # <<>>
    /\ LET current == Head(queue)
       IN /\ current # end_node
          /\ visited_nodes' = Append(visited_nodes, current)
          /\ SetLocals(BfsLoop([Locals EXCEPT !.queue = Tail(queue)], current,
                               Neighbors(current), 1))
    /\ OrchestratorUnchanged

\* ------------------------------------------------------------- DFS
Top(s) == s[Len(s)]
Pop(s) == SubSeq(s, 1, Len(s) - 1)

DfsExhausted == Running(5) /\ queue = <<>> /\ ReturnNotFound

DfsSkip ==
    /\ Running(5) /\ queue # <<>>
    /\ Top(queue) \in visited
    /\ queue' = Pop(queue)
    /\ UNCHANGED <<pq, came_from, scores, visited, visited_nodes>>
    /\ OrchestratorUnchanged

DfsGoal ==
    /\ Running(5) /\ queue # <<>>
    /\ Top(queue) \notin visited
    /\ Top(queue) = end_node
    /\ ReturnFound(Top(queue), Append(visited_nodes, Top(queue)))

DfsExpand ==
    /\ Running(5) /\ queue # <<>>
    /\ LET current == Top(queue)
       IN /\ current \notin visited
          /\ current # end_node
          /\ visited_nodes' = Append(visited_nodes, current)
          /\ SetLocals(DfsLoop([Locals EXCEPT !.queue = Pop(queue),
                                              !.visited = visited \cup {current}],
                               current, Reverse(Neighbors(current)), 1))
    /\ OrchestratorUnchanged

Next ==
    \/ AStarExhausted \/ AStarSkip \/ AStarGoal \/ AStarExpand
    \/ DijkstraExhausted \/ DijkstraSkip \/ DijkstraGoal \/ DijkstraExpand
    \/ GreedyExhausted \/ GreedyGoal \/ GreedyPop
    \/ BfsExhausted \/ BfsGoal \/ BfsExpand
    \/ DfsExhausted \/ DfsSkip \/ DfsGoal \/ DfsExpand


\* ------------------------------------------------------------- Init
RECURSIVE SetToSeq(_, _)
SetToSeq(S, descending) ==
    IF S = {} THEN <<>>
    ELSE LET m == CHOOSE x \in S :
                    \A y \in S : IF descending THEN y <= x ELSE x <= y
         IN <<m>> \o SetToSeq(S \ {m}, descending)

\* The nodes reachable from the nodes R along the edges E.
RECURSIVE ReachFrom(_, _)
ReachFrom(E, R) ==
    LET more == {e[2] : e \in {x \in E : x[1] \in R}} \ R
    IN IF more = {} THEN R ELSE ReachFrom(E, R \cup more)

\* Graphs of at most MaxEdges edges.  Edges that leave a node the search
\* cannot reach are never read by any solver, so they are left out.
EdgeSets(s) ==
    {E \in SUBSET (East \X East) :
        /\ Cardinality(E) <= MaxEdges
        /\ \A e \in E : e[1] \in ReachFrom(E, {s})}

\* The state on entry to the loop of compare_routes, the first solver's
\* prologue done, for the graph (E, descending, len), the query (s, e) and
\* the durations d a call may take.
Setup(E, descending, len, s, e, d) ==
    /\ adj = [n \in Nodes |-> SetToSeq({x[2] : x \in {y \in E : y[1] = n}},
                                       descending)]
    /\ length = len
    /\ start_node = s
    /\ end_node = e
    /\ clock = d
    /\ pc = "run"
    /\ algo = 1
    /\ pq = AStarStart.pq
    /\ queue = AStarStart.queue
    /\ came_from = AStarStart.came_from
    /\ scores = AStarStart.scores
    /\ visited = AStarStart.visited
    /\ visited_nodes = <<>>
    /\ ret = EmptyDict
    /\ results = <<>>
    /\ best_path = <<>>
    /\ min_distance = Inf
    /\ animation_visited_nodes = <<>>
    /\ fastest_algo_name = NoAlgo

\* Every edge carries a length: the great-circle distance of its endpoints
\* plus pad[edge].
Lengths(E, pad) == [x \in E |-> great_circle(x[1], x[2]) + pad[x]]

\* The ways to lengthen at most k edges of E.
Pads(E, k) ==
    {pad \in [E -> {0, 1}] : Cardinality({x \in E : pad[x] > 0}) <= k}

Init ==
    \E s \in East, e \in East, descending \in BOOLEAN :
      \E E \in EdgeSets(s) :
        \/ Setup(E, descending, EmptyDict, s, e, OneDuration)
        \/ \E pad \in Pads(E, 1) :
              Setup(E, descending, Lengths(E, pad), s, e, OneDuration)

Spec == Init /\ [][Next]_vars

\* Road networks without self-loops, of at most MaxRouteEdges edges, in
\* ascending adjacency order; InitRoutes asks for a route to another node,
\* in a network each edge of which lies on a way from the start to it.
RouteSets(s) ==
    {E \in SUBSET {x \in West \X West : x[1] # x[2]} :
        /\ Cardinality(E) <= MaxRouteEdges
        /\ \A e \in E : e[1] \in ReachFrom(E, {s})}

\* The start nodes of the route queries: the nodes with a neighbour on
\* either side.
RouteStarts == {2, 3}

InitRoutes ==
    \E s \in RouteStarts :
      \E E \in RouteSets(s) :
        \E e \in {n \in West \ {s} : \A x \in E : n \in ReachFrom(E, {x[2]})},
           pad \in Pads(E, MaxPadded) :
            Setup(E, FALSE, Lengths(E, pad), s, e, OneDuration)

\* The start nodes of the queries on the networks of unit weights.
UnitStarts == {4}

\* Networks over all the nodes whose edges carry no length attribute, so
\* that every edge weighs 1: at most MaxUnitEdges edges, no self-loops.
\* InitUnit asks for a route to another node that can be reached.
UnitSets(s) ==
    {E \in SUBSET {x \in Nodes \X Nodes : x[1] # x[2]} :
        /\ Cardinality(E) <= MaxUnitEdges
        /\ \A e \in E : e[1] \in ReachFrom(E, {s})}

InitUnit ==
    \E s \in UnitStarts :
      \E E \in UnitSets(s) :
        \E e \in ReachFrom(E, {s}) \ {s} :
            Setup(E, FALSE, EmptyDict, s, e, OneDuration)

SpecRoutes == (InitRoutes \/ InitUnit) /\ [][Next]_vars

\* A small road layout, for the runs in which the measured durations vary.
TimedLayout == {<<2, 3>>, <<2, 4>>, <<3, 4>>, <<4, 5>>}

InitTimed ==
    \E s \in East, e \in East :
      \E E \in EdgeSets(s) \cap SUBSET TimedLayout :
        \E pad \in Pads(E, 1) :
            Setup(E, FALSE, Lengths(E, pad), s, e, DurationsUs)

SpecTimed == InitTimed /\ [][Next]_vars

\* The run is fair: compare_routes is one thread that runs each loop to its
\* end.
FairStarts == {2}

\* Termination of BFS and DFS does not depend on the lengths: lengthened is
\* at most one edge, and one that leaves the start node.
InitFair ==
    \E s \in FairStarts, e \in East, descending \in BOOLEAN :
      \E E \in EdgeSets(s) :
        \E pad \in {f \in Pads(E, 1) : \A x \in E : f[x] > 0 => x[1] = s} :
            Setup(E, descending, Lengths(E, pad), s, e, OneDuration)

FairSpec == InitFair /\ [][Next]_vars /\ WF_vars(Next)

\* ----------------------------------------------------------- vocabulary
AStarName == SolverNames[1]
DijkstraName == SolverNames[2]
GreedyName == SolverNames[3]
BfsName == SolverNames[4]
DfsName == SolverNames[5]

Done == pc = "done"
Returned(n) == n \in DOMAIN ret
Found(n) == Returned(n) /\ ret[n].path # <<>>

EdgesOf == {x \in Nodes \X Nodes : x[2] \in SeqToSet(adj[x[1]])}
Reachable == ReachFrom(EdgesOf, {start_node})

NoDuplicates(s) == \A i, j \in 1..Len(s) : s[i] = s[j] => i = j

\* Sum of the edge lengths the search used along a path.
RECURSIVE LengthFrom(_, _)
LengthFrom(path, i) ==
    IF i >= Len(path) THEN 0
    ELSE EdgeLength(path[i], path[i + 1]) + LengthFrom(path, i + 1)

\* Every edge is at least as long as the great-circle distance of its
\* endpoints: the heuristic is consistent for the edge weights.
ConsistentWeights ==
    \A x \in EdgesOf : EdgeLength(x[1], x[2]) >= great_circle(x[1], x[2])

\* Every edge is exactly as long as the great-circle distance of its
\* endpoints.
ExactWeights ==
    \A x \in EdgesOf : EdgeLength(x[1], x[2]) = great_circle(x[1], x[2])

\* ---------------------------------------------------------------- C1
\* C1 (as stated): with edge weights consistent with the heuristic, when
\* A* and Dijkstra both return a path, they report the same distance.
C1_SameReportedDistance ==
    (Found(AStarName) /\ Found(DijkstraName) /\ ConsistentWeights)
        => ret[AStarName].distance = ret[DijkstraName].distance

\* C1 (amended): with consistent weights the two paths have the same sum of
\* edge lengths; the reported, coordinate-based distances are equal when
\* every edge length equals the great-circle distance of its endpoints.
C1_SameLengthAndExactDistance ==
    (Found(AStarName) /\ Found(DijkstraName) /\ ConsistentWeights)
        => /\ LengthFrom(ret[AStarName].path, 1)
                = LengthFrom(ret[DijkstraName].path, 1)
           /\ ExactWeights =>
                ret[AStarName].distance = ret[DijkstraName].distance

C1_Witness ==
    /\ Found(AStarName) /\ Found(DijkstraName) /\ ExactWeights
    /\ Len(ret[DijkstraName].path) >= 3
    /\ ret[DijkstraName].distance > 0
    /\ Cardinality(EdgesOf) >= 4

\* ---------------------------------------------------------------- C2
\* C2: after a comparison run the results list has one entry per solver,
\* a solver that found no path contributing an entry of distance 0.
C2_FiveResults ==
    Done => /\ Len(results) = Len(SolverNames)
            /\ \A i \in 1..Len(SolverNames) :
                  /\ results[i].algo = SolverNames[i]
                  /\ ~Found(SolverNames[i]) => results[i].distance = 0

\* ---------------------------------------------------------------- C3
\* C3: when the end node is not reachable from the start node, every solver
\* returns an empty path and distance 0, and its visited order holds exactly
\* the nodes reachable from the start node.
C3_UnreachableGoal ==
    end_node \notin Reachable =>
        \A n \in DOMAIN ret :
            /\ ret[n].path = <<>>
            /\ ret[n].distance = 0
            /\ SeqToSet(ret[n].visited_nodes) = Reachable

C3_Witness ==
    /\ Done
    /\ end_node \notin Reachable
    /\ Cardinality(Reachable) >= 3
    /\ DOMAIN ret = SeqToSet(SolverNames)

\* ---------------------------------------------------------------- C4
\* The trusted solvers that have returned a path of distance > 0, as indices
\* into SolverNames.
Candidates ==
    {i \in 1..Len(SolverNames) :
        /\ SolverNames[i] \in Trusted
        /\ Found(SolverNames[i])
        /\ ret[SolverNames[i]].distance > 0}

\* The candidate of least distance, the earliest one on a tie.
Winner ==
    CHOOSE i \in Candidates :
        \A j \in Candidates :
            \/ ret[SolverNames[i]].distance < ret[SolverNames[j]].distance
            \/ /\ ret[SolverNames[i]].distance = ret[SolverNames[j]].distance
               /\ i <= j

\* C4: the winning path is the path of the trusted solver (A*, Dijkstra,
\* BFS) of least strictly positive distance, the earliest on a tie; it is
\* empty when no trusted solver reports a distance greater than zero.
C4_WinningPath ==
    IF Candidates = {}
    THEN best_path = <<>> /\ min_distance = Inf
    ELSE /\ best_path = ret[SolverNames[Winner]].path
         /\ min_distance = ret[SolverNames[Winner]].distance
         /\ animation_visited_nodes = ret[SolverNames[Winner]].visited_nodes

\* Greedy BFS or DFS found a strictly shorter path than the winner.
C4_Witness ==
    /\ Done
    /\ Candidates # {}
    /\ \E n \in {GreedyName, DfsName} :
          Found(n) /\ ret[n].distance > 0 /\ ret[n].distance < min_distance

\* ---------------------------------------------------------------- C5
FoundNames == {n \in DOMAIN ret : ret[n].path # <<>>}

\* C5: the fastest algorithm is a solver that found a path and whose
\* measured duration is the least among the solvers that found a path; it is
\* None exactly when no solver found one.
C5_FastestIsQuickest ==
    Done =>
        IF FoundNames = {} THEN fastest_algo_name = NoAlgo
        ELSE /\ fastest_algo_name \in FoundNames
             /\ \A n \in FoundNames :
                   ret[fastest_algo_name].elapsed <= ret[n].elapsed

\* ---------------------------------------------------------------- C6
\* C6: when start equals end, every solver returns the path [start],
\* distance 0 and the visited order [start], and no loop iteration other
\* than the returning one runs (the solver's state is still that of its
\* prologue whenever it is running).
C6_StartIsEnd ==
    start_node = end_node =>
        /\ \A n \in DOMAIN ret :
              /\ ret[n].path = <<start_node>>
              /\ ret[n].distance = 0
              /\ ret[n].visited_nodes = <<start_node>>
        /\ pc = "run" => Locals = Prologue(algo) /\ visited_nodes = <<>>

C6_Witness ==
    /\ Done
    /\ start_node = end_node
    /\ DOMAIN ret = SeqToSet(SolverNames)
    /\ Len(adj[start_node]) >= 2

\* ---------------------------------------------------------------- C7
\* No node occurs twice in the visited order of bfs_solve or dfs_solve,
\* while they run and in what they return.
C7_NoRevisit ==
    /\ algo \in {4, 5} => NoDuplicates(visited_nodes)
    /\ \A n \in {BfsName, DfsName} \cap DOMAIN ret :
          NoDuplicates(ret[n].visited_nodes)

\* C7: under fair scheduling of the one thread, once bfs_solve or dfs_solve
\* is running both of them come to return (dfs_solve is called after
\* bfs_solve has returned), and at no time does a node occur twice in their
\* visited order.
C7_TerminatesWithoutRevisit ==
    /\ []C7_NoRevisit
    /\ (Running(4) \/ Running(5))
          ~> (Returned(BfsName) /\ Returned(DfsName))

\* DFS has a node on its stack twice after BFS has returned with a path: the
\* node was reached along two ways.
C7_Witness ==
    /\ Running(5)
    /\ ~NoDuplicates(queue)
    /\ visited_nodes # <<>>
    /\ Found(BfsName)

\* ---------------------------------------------------------------- C8
\* The least number of edges of a way from the nodes F to the end node, -1
\* when there is none; seen are the nodes nearer than F.
RECURSIVE Hops(_, _, _)
Hops(F, seen, k) ==
    IF end_node \in F THEN k
    ELSE IF F = {} THEN 0 - 1
    ELSE Hops({x[2] : x \in {y \in EdgesOf : y[1] \in F}} \ (seen \cup F),
              seen \cup F, k + 1)

MinHops == Hops({start_node}, {}, 0)

\* All the edges have one and the same positive weight.
UniformWeights ==
    LET E == EdgesOf
    IN \A x, y \in E :
          /\ EdgeLength(x[1], x[2]) = EdgeLength(y[1], y[2])
          /\ EdgeLength(x[1], x[2]) > 0

\* C8: on a graph of equal edge weights, if the goal can be reached, BFS
\* returns a path of the least number of edges and Dijkstra a path of as
\* many edges.
C8_FewestEdges ==
    \A n \in {BfsName, DijkstraName} \cap DOMAIN ret :
        (UniformWeights /\ end_node \in Reachable) =>
            Len(ret[n].path) - 1 = MinHops

\* The goal is two or more edges away, and DFS returned a longer way than
\* BFS.
C8_Witness ==
    /\ UniformWeights
    /\ Found(BfsName) /\ Found(DijkstraName)
    /\ Found(DfsName)
    /\ Len(ret[DfsName].path) > Len(ret[BfsName].path)
    /\ MinHops >= 2

\* ---------------------------------------------------------------- C9
IsEdgePath(path) ==
    \A i \in 1..(Len(path) - 1) : path[i + 1] \in SeqToSet(adj[path[i]])

\* C9: a path a solver returns on reaching the goal starts at the start
\* node, ends at the goal, and each consecutive pair of it is an edge.
C9_PathIsRoute ==
    \A n \in DOMAIN ret :
        ret[n].path # <<>> =>
            /\ ret[n].path[1] = start_node
            /\ ret[n].path[Len(ret[n].path)] = end_node
            /\ IsEdgePath(ret[n].path)

C9_Witness ==
    /\ Done
    /\ \A n \in SeqToSet(SolverNames) : Found(n) /\ Len(ret[n].path) >= 3
    /\ ret[DfsName].path # ret[BfsName].path

\* --------------------------------------------------------------- C10
\* Following cf from n reaches the start node within fuel steps.
RECURSIVE LeadsToStart(_, _, _)
LeadsToStart(cf, n, fuel) ==
    IF n \notin DOMAIN cf THEN n = start_node
    ELSE fuel > 0 /\ LeadsToStart(cf, cf[n], fuel - 1)

\* C10: in every state of every solver's loop the predecessor map has no
\* entry for the start node and no cycle: from every node that has an entry,
\* the predecessor links lead to the start node.
C10_PredecessorsAcyclic ==
    /\ start_node \notin DOMAIN came_from
    /\ \A n \in DOMAIN came_from :
          LeadsToStart(came_from, n, Cardinality(Nodes))

\* A predecessor entry was overwritten: the node has a stale heap entry
\* (A*, Dijkstra) or is on the stack twice (DFS).
C10_Witness ==
    /\ pc = "run"
    /\ \/ /\ algo \in {1, 2}
          /\ \E a, b \in pq : a # b /\ a[2] = b[2] /\ a[2] \in DOMAIN came_from
       \/ /\ algo = 5
          /\ ~NoDuplicates(queue)
    /\ Cardinality(DOMAIN came_from) >= 2

====
